---- MODULE Spec2Model ----
(***************************************************************************)
(* Model of extract_pdf_text.py: the literal-string, hex-string and array  *)
(* decoders, the tokenizer, the operator-stack interpreter and the line    *)
(* assembler of extract_text.                                              *)
(*                                                                         *)
(* Bytes and characters are their code points 0..255 (latin-1 decoding is  *)
(* the identity on code points), a bytes object or a str is a sequence of  *)
(* code points.  Positions are 0-based as in the source: data[i] of the    *)
(* source is At(data, i).                                                  *)
(*                                                                         *)
(* Every decoder returns a record with a field st: "ok" (it returned),     *)
(* "raise" (an exception left it) or "hang" (a loop iteration changed      *)
(* nothing, so the loop never ends).                                       *)
(***************************************************************************)
EXTENDS Integers, Sequences, FiniteSets, TLC

At(data, i) == data[i + 1]

\* data[a:b] of the source, for 0 <= a
Slice(data, a, b) ==
  LET hi == IF b > Len(data) THEN Len(data) ELSE b
  IN  IF a >= hi THEN << >> ELSE SubSeq(data, a + 1, hi)

WHITESPACE == {32, 9, 13, 10, 12, 0}

\* b'[]()<>{}'
Delimiters == {91, 93, 40, 41, 60, 62, 123, 125}

\* b'[]()<>{}/'
DelimitersSlash == Delimiters \cup {47}

----------------------------------------------------------------------------
(* read_string *)

\* esc in b"nrtbf()\\"
EscapeChars == {110, 114, 116, 98, 102, 40, 41, 92}

\* the mapping table of read_string
mapping(esc) ==
  CASE esc = 110 -> 10
    [] esc = 114 -> 13
    [] esc = 116 -> 9
    [] esc = 98  -> 8
    [] esc = 102 -> 12
    [] OTHER     -> esc

IsOctDigit(b) == 48 <= b /\ b <= 55

\* the inner while loop: oct_digits after the first digit at data[i]
RECURSIVE OctDigitsFrom(_, _, _, _)
OctDigitsFrom(data, i, j, digits) ==
  IF j < 3 /\ i + j < Len(data) /\ IsOctDigit(At(data, i + j))
  THEN OctDigitsFrom(data, i, j + 1, Append(digits, At(data, i + j)))
  ELSE digits

\* int(bytes(oct_digits), 8)
RECURSIVE OctValue(_)
OctValue(digits) ==
  IF digits = << >> THEN 0
  ELSE 8 * OctValue(SubSeq(digits, 1, Len(digits) - 1)) + (digits[Len(digits)] - 48)

\* bytearray.append(v): ValueError unless 0 <= v < 256
ByteInRange(v) == 0 <= v /\ v < 256

\* lines 34-44: the octal escape whose digits are oct_digits, the first at i1
OctalEscape(s, i1, oct_digits) ==
  IF ByteInRange(OctValue(oct_digits))
  THEN [s EXCEPT !.i = i1 + Len(oct_digits), !.buf = Append(s.buf, OctValue(oct_digits))]
  ELSE [s EXCEPT !.i = i1 + Len(oct_digits) - 1, !.pc = "raise"]

\* lines 20-46: the escape whose character esc stands at i1
Escape(data, s, i1, esc) ==
  IF esc \in EscapeChars
  THEN [s EXCEPT !.i = i1 + 1, !.buf = Append(s.buf, mapping(esc))]
  ELSE IF IsOctDigit(esc)
  THEN OctalEscape(s, i1, OctDigitsFrom(data, i1, 1, <<esc>>))
  ELSE [s EXCEPT !.i = i1 + 1, !.buf = Append(s.buf, esc)]

\* read_string without nesting: an unescaped '(' is kept but opens no level
ReadStringIterFlat(data, s) ==
  IF At(data, s.i) = 92 THEN
    IF s.i + 1 >= Len(data)
    THEN [s EXCEPT !.i = s.i + 1, !.pc = "return"]
    ELSE Escape(data, s, s.i + 1, At(data, s.i + 1))
  ELSE IF At(data, s.i) = 40 THEN
    [s EXCEPT !.i = s.i + 1, !.buf = Append(s.buf, 40)]
  ELSE IF At(data, s.i) = 41 THEN
    IF s.depth - 1 = 0
    THEN [s EXCEPT !.i = s.i + 1, !.depth = 0, !.pc = "return"]
    ELSE [s EXCEPT !.i = s.i + 1, !.depth = s.depth - 1, !.buf = Append(s.buf, 41)]
  ELSE [s EXCEPT !.i = s.i + 1, !.buf = Append(s.buf, At(data, s.i))]

\* One iteration of the while loop of read_string; s = [i, depth, buf, pc]
\* with pc = "loop"; pc becomes "return" on a break and "raise" on an exception.
ReadStringIter(data, s) ==
  IF At(data, s.i) = 92 THEN
    IF s.i + 1 >= Len(data)
    THEN [s EXCEPT !.i = s.i + 1, !.pc = "return"]
    ELSE Escape(data, s, s.i + 1, At(data, s.i + 1))
  ELSE IF At(data, s.i) = 40 THEN
    [s EXCEPT !.i = s.i + 1, !.depth = s.depth + 1, !.buf = Append(s.buf, 40)]
  ELSE IF At(data, s.i) = 41 THEN
    IF s.depth - 1 = 0
    THEN [s EXCEPT !.i = s.i + 1, !.depth = 0, !.pc = "return"]
    ELSE [s EXCEPT !.i = s.i + 1, !.depth = s.depth - 1, !.buf = Append(s.buf, 41)]
  ELSE [s EXCEPT !.i = s.i + 1, !.buf = Append(s.buf, At(data, s.i))]

\* the loop condition of read_string
ReadStringCond(data, s) == s.i < Len(data) /\ s.depth > 0

RECURSIVE ReadStringLoop(_, _)
ReadStringLoop(data, s) ==
  IF s.pc = "loop" /\ ReadStringCond(data, s)
  THEN ReadStringLoop(data, ReadStringIter(data, s))
  ELSE s

\* line 59, or the exception that left the loop
ReadStringResult(s) ==
  IF s.pc = "raise"
  THEN [st |-> "raise", text |-> << >>, i |-> s.i]
  ELSE [st |-> "ok", text |-> s.buf, i |-> s.i]

read_string(data, i) ==
  ReadStringResult(
    ReadStringLoop(data, [i |-> i, depth |-> 1, buf |-> << >>, pc |-> "loop"]))

----------------------------------------------------------------------------
(* skip_comment, skip_dictionary, read_hex_string *)

RECURSIVE skip_comment(_, _)
skip_comment(data, i) ==
  IF i < Len(data) /\ At(data, i) \notin {10, 13}
  THEN skip_comment(data, i + 1)
  ELSE i

\* one iteration of the while loop of skip_dictionary: [i, depth]
SkipDictIter(data, i, depth) ==
  IF At(data, i) = 37 THEN [i |-> skip_comment(data, i + 1), depth |-> depth]
  ELSE IF Slice(data, i, i + 2) = <<60, 60>> THEN [i |-> i + 2, depth |-> depth + 1]
  ELSE IF Slice(data, i, i + 2) = <<62, 62>> THEN [i |-> i + 2, depth |-> depth - 1]
  ELSE [i |-> i + 1, depth |-> depth]

RECURSIVE SkipDictLoop(_, _)
SkipDictLoop(data, s) ==
  IF s.i < Len(data) /\ s.depth > 0
  THEN SkipDictLoop(data, SkipDictIter(data, s.i, s.depth))
  ELSE s.i

skip_dictionary(data, i) == SkipDictLoop(data, [i |-> i + 2, depth |-> 1])

\* line 88: the loop condition of read_hex_string
HexCond(data, i) == i < Len(data) /\ At(data, i) # 62

\* lines 89-92: one iteration of the while loop of read_hex_string
HexIter(data, i, hex_chars) ==
  [i |-> i + 1,
   hex_chars |-> IF At(data, i) \notin WHITESPACE
                 THEN Append(hex_chars, At(data, i)) ELSE hex_chars]

\* the while loop of read_hex_string: the position of '>' or the end, and hex_chars
RECURSIVE HexCollect(_, _, _)
HexCollect(data, i, hex_chars) ==
  IF HexCond(data, i)
  THEN HexCollect(data, HexIter(data, i, hex_chars).i, HexIter(data, i, hex_chars).hex_chars)
  ELSE [i |-> i, hex_chars |-> hex_chars]

IsHexDigit(b) == (48 <= b /\ b <= 57) \/ (65 <= b /\ b <= 70) \/ (97 <= b /\ b <= 102)

HexVal(b) == IF b <= 57 THEN b - 48 ELSE IF b <= 70 THEN b - 55 ELSE b - 87

\* the characters bytes.fromhex skips between byte pairs (ASCII whitespace)
FromHexSpace == {32, 9, 10, 13, 11, 12}

\* bytes.fromhex(s): [ok, bytes]; ok = FALSE stands for ValueError
RECURSIVE FromHex(_, _, _)
FromHex(s, k, acc) ==
  IF k > Len(s) THEN [ok |-> TRUE, bytes |-> acc]
  ELSE IF s[k] \in FromHexSpace THEN FromHex(s, k + 1, acc)
  ELSE IF k + 1 <= Len(s) /\ IsHexDigit(s[k]) /\ IsHexDigit(s[k + 1])
       THEN FromHex(s, k + 2, Append(acc, 16 * HexVal(s[k]) + HexVal(s[k + 1])))
       ELSE [ok |-> FALSE, bytes |-> << >>]

\* lines 98-101: the text of the padded hex_str
HexText(h) == IF h.ok THEN h.bytes ELSE << >>

\* lines 96-97
HexPad(hex_chars) ==
  IF Len(hex_chars) % 2 = 1 THEN Append(hex_chars, 48) ELSE hex_chars

\* lines 93-102 after the loop ended at r = [i, hex_chars]
HexResult(data, r) ==
  [st |-> "ok",
   text |-> HexText(FromHex(HexPad(r.hex_chars), 1, << >>)),
   i |-> IF r.i < Len(data) /\ At(data, r.i) = 62 THEN r.i + 1 ELSE r.i]

read_hex_string(data, i) == HexResult(data, HexCollect(data, i + 1, << >>))

----------------------------------------------------------------------------
(* Values: tokens and array elements *)

\* A Python number as decimal.Decimal(x).as_tuple() gives it: sign = 1 or -1;
\* digits, most significant first; e, the power of ten.
\*   k = "int":   the integer digits (<<0>> for zero, sign 1), e = 0;
\*   k = "float": the non-integer double whose exact value is digits * 10^e,
\*                e < 0, with no leading and no trailing zero digit;
\*   k = "inf" (with its sign) and k = "nan": digits = << >>, e = 0.
Num(k, sign, digits, e) == [k |-> k, sign |-> sign, digits |-> digits, e |-> e]

\* the decimal digits of the natural number v, none for zero
RECURSIVE DigitsOf(_)
DigitsOf(v) == IF v = 0 THEN << >> ELSE Append(DigitsOf(v \div 10), v % 10)

NumInt(v) ==
  IF v = 0 THEN Num("int", 1, <<0>>, 0)
  ELSE IF v < 0 THEN Num("int", -1, DigitsOf(0 - v), 0)
  ELSE Num("int", 1, DigitsOf(v), 0)

\* the double m * 10^e, for m and e that make one
NumFloat(m, e) ==
  IF m < 0 THEN Num("float", -1, DigitsOf(0 - m), e) ELSE Num("float", 1, DigitsOf(m), e)

NumInf(sign) == Num("inf", sign, << >>, 0)
NumNan == Num("nan", 1, << >>, 0)

\* A token (typ, val) of tokenize, or an element of an array (typ "str", "num"
\* or "list" standing for its Python type).  val is s for text, n for a number,
\* l for a list; the fields the type does not use hold a fixed filler.
Value(typ, s, n, l) == [typ |-> typ, s |-> s, n |-> n, l |-> l]
StringTok(text) == Value("STRING", text, NumInt(0), << >>)
NumberTok(n) == Value("NUMBER", << >>, n, << >>)
ArrayTok(arr) == Value("ARRAY", << >>, NumInt(0), arr)
NameTok(name) == Value("NAME", name, NumInt(0), << >>)
StrItem(text) == Value("str", text, NumInt(0), << >>)
NumItem(n) == Value("num", << >>, n, << >>)
ListItem(arr) == Value("list", << >>, NumInt(0), arr)

----------------------------------------------------------------------------
(* Natural numbers of any size, as sequences of decimal digits (most         *)
(* significant first, no leading zero, << >> for zero): the arithmetic that  *)
(* float() needs to round a decimal literal to the nearest double.           *)

\* a without its leading zeros
Trim(a) ==
  SubSeq(a, CHOOSE k \in 1..(Len(a) + 1) :
               (k > Len(a) \/ a[k] # 0) /\ \A h \in 1..(k - 1) : a[h] = 0,
         Len(a))

\* the digit of weight 10^r of a
Digit(a, r) == IF r < Len(a) THEN a[Len(a) - r] ELSE 0

\* s backwards
Reverse(s) == SubSeq([k \in 1..Len(s) |-> s[Len(s) + 1 - k]], 1, Len(s))

\* The digits of weights 10^lo to 10^hi of a * m + b * c + carry * 10^lo, for
\* small integers m, c and carry, least significant first and followed by the
\* carry into 10^(hi + 1): <<digit lo, ..., digit hi, carry>>.  The range is
\* halved, the carry of the lower half L going into the upper half.
RECURSIVE LinRange(_, _, _, _, _, _, _)

LinHigh(a, m, b, c, lo, hi, L) ==
  SubSeq(L, 1, Len(L) - 1) \o LinRange(a, m, b, c, (lo + hi) \div 2 + 1, hi, L[Len(L)])

LinRange(a, m, b, c, lo, hi, carry) ==
  IF lo = hi
  THEN <<(Digit(a, lo) * m + Digit(b, lo) * c + carry) % 10,
         (Digit(a, lo) * m + Digit(b, lo) * c + carry) \div 10>>
  ELSE LinHigh(a, m, b, c, lo, hi, LinRange(a, m, b, c, lo, (lo + hi) \div 2, carry))

\* a * m + b * c + carry, when that is not negative: ten digits more than the
\* longer of a and b take up the last carry
Lin(a, m, b, c, carry) ==
  Trim(Reverse(LinRange(a, m, b, c, 0,
                        (IF Len(a) > Len(b) THEN Len(a) ELSE Len(b)) + 10, carry)))

\* a < b
BigLess(a, b) ==
  \/ Len(a) < Len(b)
  \/ /\ Len(a) = Len(b)
     /\ \E k \in 1..Len(a) : a[k] < b[k] /\ \A h \in 1..(k - 1) : a[h] = b[h]

\* a * b^n, for b = 2 or 5
RECURSIVE MulPow(_, _, _)
MulPow(a, b, n) ==
  IF a = << >> \/ n <= 11 THEN Lin(a, b^n, << >>, 0, 0)
  ELSE MulPow(MulPow(a, b, n \div 2), b, n - n \div 2)

\* the largest d with Den * d <= R, for R < 10 * Den
QuotDigit(R, Den) ==
  CHOOSE d \in 0..9 :
    ~BigLess(R, Lin(Den, d, << >>, 0, 0)) /\ BigLess(R, Lin(Den, d + 1, << >>, 0, 0))

\* long division: the digits of N from the k-th on are brought down to the
\* remainder R one at a time, each giving one digit of the quotient q
RECURSIVE DivLoop(_, _, _, _, _)

DivPut(N, Den, k, q, R) ==
  IF BigLess(R, Den) THEN DivLoop(N, Den, k + 1, Append(q, 0), R)
  ELSE DivLoop(N, Den, k + 1, Append(q, QuotDigit(R, Den)),
               Lin(R, 1, Den, 0 - QuotDigit(R, Den), 0))

DivLoop(N, Den, k, q, R) ==
  IF k > Len(N) THEN [q |-> Trim(q), r |-> R]
  ELSE DivPut(N, Den, k, q, Trim(Append(R, N[k])))

\* [q, r] with N = q * Den + r and r < Den
DivMod(N, Den) ==
  IF Len(N) < Len(Den) THEN [q |-> << >>, r |-> N]
  ELSE DivLoop(N, Den, Len(Den), << >>, Trim(SubSeq(N, 1, Len(Den) - 1)))

\* q + r / Den rounded to the nearest integer, a tie to the even one
RoundHalfEven(d, Den) ==
  IF \/ BigLess(Den, Lin(d.r, 2, << >>, 0, 0))
     \/ Den = Lin(d.r, 2, << >>, 0, 0) /\ d.q # << >> /\ d.q[Len(d.q)] % 2 = 1
  THEN Lin(d.q, 1, << >>, 0, 1)
  ELSE d.q

\* a step of `want` binary places, at least 1 and at most `most`
Shift(want, most) == IF want < 1 THEN 1 ELSE IF want > most THEN most ELSE want

\* The significand M (below 2^53, or 2^53 itself when rounding carries) and
\* the exponent E of the double nearest to N / Den * 2^E: Den or N is doubled
\* until 2^52 <= N / Den < 2^53, or until the least exponent of a double,
\* -1074, is reached (a subnormal); M is then N / Den rounded.  N / Den lies
\* between 10^(Len(N) - Len(Den) - 1) and 10^(Len(N) - Len(Den) + 1), and
\* 2^3 < 10: that many doublings at once cannot pass the range.
RECURSIVE Scale(_, _, _)
Scale(N, Den, E) ==
  IF ~BigLess(N, MulPow(Den, 2, 53))
  THEN Scale(N, MulPow(Den, 2, Shift(3 * (Len(N) - Len(Den) - 17), 1100)),
             E + Shift(3 * (Len(N) - Len(Den) - 17), 1100))
  ELSE IF E > -1074 /\ BigLess(N, MulPow(Den, 2, 52))
  THEN Scale(MulPow(N, 2, Shift(3 * (14 - Len(N) + Len(Den)), E + 1074)), Den,
             E - Shift(3 * (14 - Len(N) + Len(Den)), E + 1074))
  ELSE [M |-> RoundHalfEven(DivMod(N, Den), Den), E |-> E]

----------------------------------------------------------------------------
(* float(token), num.is_integer(), int(num) *)

\* the characters str.strip() strips (Unicode whitespace below 256)
PyWhitespace == {9, 10, 11, 12, 13, 28, 29, 30, 31, 32, 133, 160}

\* the blanks float() accepts around a literal: the ASCII whitespace and the
\* non-ASCII Unicode spaces (below 256: NEL and NBSP), not the bytes 28..31
FloatWhitespace == {9, 10, 11, 12, 13, 32, 133, 160}

IsDigit(b) == 48 <= b /\ b <= 57

RECURSIVE LStrip(_, _)
LStrip(s, ws) == IF s # << >> /\ s[1] \in ws THEN LStrip(Tail(s), ws) ELSE s

RECURSIVE RStrip(_, _)
RStrip(s, ws) ==
  IF s # << >> /\ s[Len(s)] \in ws THEN RStrip(SubSeq(s, 1, Len(s) - 1), ws) ELSE s

\* str.strip()
Strip(s) == RStrip(LStrip(s, PyWhitespace), PyWhitespace)

\* Underscores of a numeric literal: allowed only between two digits.
\* [ok, s]: s is the literal without them.
RECURSIVE DropUnderscores(_, _, _, _)
DropUnderscores(s, k, prev, acc) ==
  IF k > Len(s) THEN [ok |-> prev # 95, s |-> acc]
  ELSE IF s[k] = 95
       THEN IF IsDigit(prev) THEN DropUnderscores(s, k + 1, 95, acc)
            ELSE [ok |-> FALSE, s |-> << >>]
       ELSE IF prev = 95 /\ ~IsDigit(s[k]) THEN [ok |-> FALSE, s |-> << >>]
            ELSE DropUnderscores(s, k + 1, s[k], Append(acc, s[k]))

Lower(b) == IF 65 <= b /\ b <= 90 THEN b + 32 ELSE b

LowerSeq(s) == [k \in 1..Len(s) |-> Lower(s[k])]

\* first position >= k of s that holds no digit
RECURSIVE DigitsEnd(_, _)
DigitsEnd(s, k) == IF k <= Len(s) /\ IsDigit(s[k]) THEN DigitsEnd(s, k + 1) ELSE k

\* the digits of the characters s[a..b]
DigitsIn(s, a, b) == [k \in 1..(b - a + 1) |-> s[a + k - 1] - 48]

\* float() reads an exponent of more than nine digits (leading zeros apart) as
\* this one
MAX_ABS_EXP == 1100000000

\* float() refuses a literal with more digits than this, leading zeros apart,
\* or with more digits than this after the point
MAX_DIGITS == 1000000000

\* the value of the exponent digits d (no leading zero), as float() reads it
RECURSIVE DigitsValue(_)
DigitsValue(d) ==
  IF Len(d) > 9 THEN MAX_ABS_EXP
  ELSE IF d = << >> THEN 0
  ELSE 10 * DigitsValue(SubSeq(d, 1, Len(d) - 1)) + d[Len(d)]

\* digits * 10^e (e < 0) without the zeros that end it, after
\* "int(num) if num.is_integer() else num": an int when no fraction is left;
\* Len(Trim(Reverse(digits))) digits stand before those zeros
Normalize(sign, digits, e) ==
  IF Len(digits) - Len(Trim(Reverse(digits))) >= 0 - e
  THEN Num("int", sign, SubSeq(digits, 1, Len(digits) + e), 0)
  ELSE Num("float", sign, SubSeq(digits, 1, Len(Trim(Reverse(digits)))),
           e + Len(digits) - Len(Trim(Reverse(digits))))

\* the double sign * M * 2^E with d = [M, E], coerced: an integer when E >= 0,
\* else M * 5^-E * 10^E; inf from 2^1024 = 2^53 * 2^971 on
Double(sign, d) ==
  IF d.M = << >> THEN NumInt(0)
  ELSE IF d.E > 971 \/ (d.E = 971 /\ d.M = MulPow(<<1>>, 2, 53))
  THEN NumInf(sign)
  ELSE IF d.E >= 0 THEN Num("int", sign, MulPow(d.M, 2, d.E), 0)
  ELSE Normalize(sign, MulPow(d.M, 5, 0 - d.E), d.E)

\* the double nearest to the decimal n * 10^e (n a digit sequence that ends
\* with no zero) and the coercion of lines 192-193 and 144-145.  Zero, and what
\* is below 10^-324 (less than half the least subnormal 2^-1074), is 0.0 or
\* -0.0, hence int 0; 10^309 and more is inf; an integer below 10^15 is a
\* double itself; the rest is rounded to the nearest double.
Nearest(sign, n, e) ==
  IF n = << >> \/ Len(n) + e <= -324 THEN NumInt(0)
  ELSE IF Len(n) + e >= 310 THEN NumInf(sign)
  ELSE IF e >= 0 /\ Len(n) + e <= 15
  THEN Num("int", sign, n \o [k \in 1..e |-> 0], 0)
  ELSE IF e >= 0 THEN Double(sign, Scale(n \o [k \in 1..e |-> 0], <<1>>, 0))
  ELSE Double(sign, Scale(n, <<1>> \o [k \in 1..(0 - e) |-> 0], 0))

\* float() of the decimal n * 10^e: the zeros that end n go into the exponent
StrToD(sign, n, e) ==
  Nearest(sign, SubSeq(n, 1, Len(Trim(Reverse(n)))), e + Len(n) - Len(Trim(Reverse(n))))

\* the exponent digits of s from position c0 to the end, negated when neg
DecimalExp(s, c0, neg) ==
  IF c0 <= Len(s) /\ DigitsEnd(s, c0) = Len(s) + 1
  THEN [ok |-> TRUE,
        v |-> IF neg THEN 0 - DigitsValue(Trim(DigitsIn(s, c0, Len(s))))
              ELSE DigitsValue(Trim(DigitsIn(s, c0, Len(s))))]
  ELSE [ok |-> FALSE, v |-> 0]

\* what follows the mantissa of s at position b: nothing, or e/E, a sign, digits
DecimalTail(s, b) ==
  IF b = Len(s) + 1 THEN [ok |-> TRUE, v |-> 0]
  ELSE IF s[b] \notin {101, 69} THEN [ok |-> FALSE, v |-> 0]
  ELSE IF b + 1 <= Len(s) /\ s[b + 1] \in {43, 45}
       THEN DecimalExp(s, b + 2, s[b + 1] = 45)
       ELSE DecimalExp(s, b + 1, FALSE)

\* digits: the digits of the mantissa, nfrac of them after the point; a
\* mantissa without a digit, or with more than MAX_DIGITS, is no literal
DecimalResult(digits, nfrac, x) ==
  IF digits # << >> /\ x.ok /\ Len(Trim(digits)) <= MAX_DIGITS /\ nfrac <= MAX_DIGITS
  THEN [ok |-> TRUE, n |-> Trim(digits), e |-> x.v - nfrac]
  ELSE [ok |-> FALSE, n |-> << >>, e |-> 0]

\* the mantissa of the decimal literal s (no sign, no underscores): integer
\* digits up to a, a fraction from a + 1 up to b; [ok, n, e], value n * 10^e
DecimalFrac(s, a, b) ==
  DecimalResult(DigitsIn(s, 1, a - 1) \o DigitsIn(s, a + 1, b - 1), b - a - 1,
                DecimalTail(s, b))

DecimalInt(s, a) ==
  IF a <= Len(s) /\ s[a] = 46
  THEN DecimalFrac(s, a, DigitsEnd(s, a + 1))
  ELSE DecimalResult(DigitsIn(s, 1, a - 1), 0, DecimalTail(s, a))

ParseFinite(sign, d) ==
  IF d.ok THEN [ok |-> TRUE, n |-> StrToD(sign, d.n, d.e)]
  ELSE [ok |-> FALSE, n |-> NumInt(0)]

\* the literal body after its sign
ParseBody(sign, body) ==
  IF LowerSeq(body) \in {<<105, 110, 102>>, <<105, 110, 102, 105, 110, 105, 116, 121>>}
  THEN [ok |-> TRUE, n |-> NumInf(sign)]
  ELSE IF LowerSeq(body) = <<110, 97, 110>> THEN [ok |-> TRUE, n |-> NumNan]
  ELSE ParseFinite(sign, DecimalInt(body, DigitsEnd(body, 1)))

ParseSigned(t) ==
  IF t # << >> /\ t[1] \in {43, 45}
  THEN ParseBody(IF t[1] = 45 THEN -1 ELSE 1, Tail(t))
  ELSE ParseBody(1, t)

ParseUnderscored(u) ==
  IF u.ok THEN ParseSigned(u.s) ELSE [ok |-> FALSE, n |-> NumInt(0)]

\* float(token) followed by the coercion of lines 192-193 and 144-145:
\* [ok, n]; ok = FALSE stands for ValueError
ParseNumber(token) ==
  ParseUnderscored(DropUnderscores(RStrip(LStrip(token, FloatWhitespace), FloatWhitespace),
                                   1, 0, << >>))

\* item < bound for a number item and an integer bound
NumLess(n, bound) ==
  CASE n.k = "nan" -> FALSE
    [] n.k = "inf" -> n.sign < 0
    [] n.sign > 0  -> bound > 0 /\ BigLess(Trim(n.digits),
                                           DigitsOf(bound) \o [k \in 1..(0 - n.e) |-> 0])
    [] OTHER       -> bound >= 0 \/ BigLess(DigitsOf(0 - bound) \o [k \in 1..(0 - n.e) |-> 0],
                                            n.digits)

----------------------------------------------------------------------------
(* read_array *)

\* the scan "while k < len(data) and data[k] not in WHITESPACE and data[k] not in stop"
RECURSIVE ScanToken(_, _, _)
ScanToken(data, k, stop) ==
  IF k < Len(data) /\ At(data, k) \notin WHITESPACE /\ At(data, k) \notin stop
  THEN ScanToken(data, k + 1, stop)
  ELSE k

ArrayItemOf(token, p) == IF p.ok THEN NumItem(p.n) ELSE StrItem(token)

\* the element appended for a non-empty bare token of an array
ArrayBareItem(token) == ArrayItemOf(token, ParseNumber(token))

RECURSIVE ReadArrayLoop(_, _)
RECURSIVE read_array(_, _)

ArrayGo(st, a, p, pc) == [st |-> st, arr |-> a, i |-> p, pc |-> pc]

\* lines 119-121 and 130-132: the string r decoded for an array
ArrayString(arr, r) ==
  ArrayGo(r.st, IF r.st = "ok" THEN Append(arr, StrItem(r.text)) ELSE arr, r.i, "loop")

\* lines 123-125: the nested array r
ArrayNested(arr, r) ==
  ArrayGo(r.st, IF r.st = "ok" THEN Append(arr, ListItem(r.arr)) ELSE arr, r.i, "loop")

\* lines 138-148: the bare token data[i:j]
ArrayBare(data, arr, i, j) ==
  IF j = i
  THEN ArrayGo("hang", arr, i, "loop")
  ELSE ArrayGo("ok", Append(arr, ArrayBareItem(Slice(data, i, j))), j, "loop")

\* One iteration of the while loop of read_array at position i < len(data) with
\* arr accumulated so far: [st, arr, i, pc]; pc = "return" at the ']' (line 114),
\* st = "raise" when read_string raised, "hang" when the iteration changes nothing.
ReadArrayIter(data, i, arr) ==
  IF At(data, i) \in WHITESPACE THEN ArrayGo("ok", arr, i + 1, "loop")
  ELSE IF At(data, i) = 93 THEN ArrayGo("ok", arr, i + 1, "return")
  ELSE IF At(data, i) = 37 THEN ArrayGo("ok", arr, skip_comment(data, i + 1), "loop")
  ELSE IF At(data, i) = 40 THEN ArrayString(arr, read_string(data, i + 1))
  ELSE IF At(data, i) = 91 THEN ArrayNested(arr, read_array(data, i))
  ELSE IF At(data, i) = 60 THEN
    IF i + 1 < Len(data) /\ At(data, i + 1) = 60
    THEN ArrayGo("ok", arr, skip_dictionary(data, i), "loop")
    ELSE ArrayString(arr, read_hex_string(data, i))
  ELSE IF At(data, i) = 47
  THEN ArrayGo("ok", arr, ScanToken(data, i + 1, Delimiters), "loop")
  ELSE ArrayBare(data, arr, i, ScanToken(data, i, DelimitersSlash))

\* the while loop of read_array from the state s = [st, arr, i, pc]
ReadArrayLoop(data, s) ==
  IF s.st = "ok" /\ s.pc = "loop" /\ s.i < Len(data)
  THEN ReadArrayLoop(data, ReadArrayIter(data, s.i, s.arr))
  ELSE [st |-> s.st, arr |-> s.arr, i |-> s.i]

\* lines 105-149.  The interpreter's recursion limit is not modelled: a chunk
\* whose arrays nest deeper than it (about a thousand '[') makes line 123 raise
\* RecursionError, far beyond the lengths explored here.
read_array(data, i) ==
  ReadArrayLoop(data, [st |-> "ok", arr |-> << >>, i |-> i + 1, pc |-> "loop"])

----------------------------------------------------------------------------
(* tokenize *)

BareTokenOf(token, p) == IF p.ok THEN NumberTok(p.n) ELSE NameTok(token)

\* the token yielded for a non-empty bare token
BareToken(token) == BareTokenOf(token, ParseNumber(token))

\* lines 164-165 and 171-172: the string r decoded at position i
YieldString(i, r) ==
  IF r.st # "ok" THEN [st |-> r.st, i |-> i, yield |-> << >>, bare |-> FALSE]
  ELSE [st |-> "ok", i |-> r.i, yield |-> <<StringTok(r.text)>>, bare |-> FALSE]

\* lines 175-176: the array r read at position i
YieldArray(i, r) ==
  IF r.st # "ok" THEN [st |-> r.st, i |-> i, yield |-> << >>, bare |-> FALSE]
  ELSE [st |-> "ok", i |-> r.i, yield |-> <<ArrayTok(r.arr)>>, bare |-> FALSE]

\* the name yielded without its leading '/'
YieldNameBare(data, i, e) ==
  [st |-> "ok", i |-> e, yield |-> <<NameTok(Slice(data, i + 1, e))>>, bare |-> FALSE]

\* lines 179-184: the name data[i + 1:e]
YieldName(data, i, e) ==
  [st |-> "ok", i |-> e, yield |-> <<NameTok(<<47>> \o Slice(data, i + 1, e))>>,
   bare |-> FALSE]

\* lines 186-196: the bare token data[i:j]; a token that is not empty is
\* yielded (line 193 or 195) before line 196 moves i to j
YieldBare(data, i, j) ==
  [st |-> "ok", i |-> j,
   yield |-> IF j > i THEN <<BareToken(Slice(data, i, j))>> ELSE << >>, bare |-> TRUE]

\* One iteration of the while loop of tokenize at position i < len(data):
\* [st, i, yield, bare]: the position after it and the tokens it yields (none
\* or one); st = "raise" when a decoder raised, "hang" when a decoder never
\* returns; bare = TRUE when the iteration is that of a bare token, which sets
\* the local j and moves i only after its yield.
TokenizeIter(data, i) ==
  IF At(data, i) \in WHITESPACE
  THEN [st |-> "ok", i |-> i + 1, yield |-> << >>, bare |-> FALSE]
  ELSE IF At(data, i) = 37
  THEN [st |-> "ok", i |-> skip_comment(data, i + 1), yield |-> << >>, bare |-> FALSE]
  ELSE IF At(data, i) = 40 THEN YieldString(i, read_string(data, i + 1))
  ELSE IF At(data, i) = 60 THEN
    IF i + 1 < Len(data) /\ At(data, i + 1) = 60
    THEN [st |-> "ok", i |-> skip_dictionary(data, i), yield |-> << >>, bare |-> FALSE]
    ELSE YieldString(i, read_hex_string(data, i))
  ELSE IF At(data, i) = 91 THEN YieldArray(i, read_array(data, i))
  ELSE IF At(data, i) = 47 THEN YieldName(data, i, ScanToken(data, i + 1, DelimitersSlash))
  ELSE YieldBare(data, i, ScanToken(data, i, DelimitersSlash))

\* list(tokenize(data)) from position i with the tokens yielded so far:
\* an iteration that neither moves i nor yields repeats for ever
RECURSIVE TokenizeLoop(_, _, _)

\* the loop of tokenize after the iteration r at position i
TokenizeAfter(data, i, toks, r) ==
  IF r.st # "ok" THEN [st |-> r.st, toks |-> toks]
  ELSE IF r.i = i /\ r.yield = << >> THEN [st |-> "hang", toks |-> toks]
  ELSE TokenizeLoop(data, r.i, toks \o r.yield)

TokenizeLoop(data, i, toks) ==
  IF ~(i < Len(data)) THEN [st |-> "ok", toks |-> toks]
  ELSE TokenizeAfter(data, i, toks, TokenizeIter(data, i))

tokenize(data) == TokenizeLoop(data, 0, << >>)

----------------------------------------------------------------------------
(* interpret: the operand-stack machine *)

\* the operator names of lines 219-254
OpTjName == <<84, 106>>
OpQuoteName == <<39>>
OpDQuoteName == <<34>>
OpTJName == <<84, 74>>
OpTdName == <<84, 100>>
OpTDName == <<84, 68>>
OpTmName == <<84, 109>>
OpETName == <<69, 84>>
OpBTName == <<66, 84>>

\* line 243: item < -120
TJGapThreshold == -120

\* The locals of interpret: st = [stack, lines, current]
InterpretStart == [stack |-> << >>, lines |-> << >>, current |-> << >>]

Top(stack) == stack[Len(stack)]

\* flush as if force_blank were passed as True
flushBlank(st, force_blank) ==
  IF st.current # << >>
  THEN [st EXCEPT !.lines = Append(st.lines, st.current), !.current = << >>]
  ELSE [st EXCEPT !.lines = Append(st.lines, << >>)]

\* lines 204-210
flush(st, force_blank) ==
  IF st.current # << >>
  THEN [st EXCEPT !.lines = Append(st.lines, st.current), !.current = << >>]
  ELSE IF force_blank
  THEN [st EXCEPT !.lines = Append(st.lines, << >>)]
  ELSE st

\* stack.clear()
ClearStack(st) == [st EXCEPT !.stack = << >>]

\* the text put in front of the accumulator
AddTextFront(st, text) == [st EXCEPT !.current = text \o st.current]

\* current += text
AddText(st, text) == [st EXCEPT !.current = st.current \o text]

\* Tj starting a new line as ' does
OpTjNewLine(st) ==
  IF st.stack # << >> /\ Top(st.stack).typ = "STRING"
  THEN ClearStack(AddText(flush(st, FALSE), Top(st.stack).s))
  ELSE ClearStack(st)

\* lines 219-222
OpTj(st) ==
  IF st.stack # << >> /\ Top(st.stack).typ = "STRING"
  THEN ClearStack(AddText(st, Top(st.stack).s))
  ELSE ClearStack(st)

\* ' without its flush
OpQuoteNoFlush(st) ==
  IF st.stack # << >> /\ Top(st.stack).typ = "STRING"
  THEN ClearStack(AddText(st, Top(st.stack).s))
  ELSE ClearStack(st)

\* lines 223-227
OpQuote(st) ==
  IF st.stack # << >> /\ Top(st.stack).typ = "STRING"
  THEN ClearStack(AddText(flush(st, FALSE), Top(st.stack).s))
  ELSE ClearStack(st)

\* lines 228-235
OpDQuote(st) ==
  IF Len(st.stack) >= 3 /\ Top(st.stack).typ = "STRING"
  THEN ClearStack(AddText(flush(st, FALSE), Top(st.stack).s))
  ELSE ClearStack(st)

\* item <= -120
TJGapInclusive(n) == NumLess(n, TJGapThreshold) \/ n = NumInt(TJGapThreshold)

\* line 243
TJGap(n) == NumLess(n, TJGapThreshold)

\* lines 240-244: what one array item adds to current
TJItem(item) ==
  IF item.typ = "str" THEN item.s
  ELSE IF item.typ = "num" /\ TJGap(item.n) THEN <<32>>
  ELSE << >>

\* lines 239-244: current after the items of arr from position p on
RECURSIVE TJLoop(_, _, _)
TJLoop(current, arr, p) ==
  IF p > Len(arr) THEN current
  ELSE TJLoop(current \o TJItem(arr[p]), arr, p + 1)

\* lines 236-245: the stack is cleared inside the if
OpTJ(st) ==
  IF st.stack # << >> /\ Top(st.stack).typ = "ARRAY"
  THEN [st EXCEPT !.current = TJLoop(st.current, Top(st.stack).l, 1), !.stack = << >>]
  ELSE st

\* Td, TD, Tm, ET, BT without their flush
OpFlushKeepsText(st) == ClearStack(st)

\* lines 246-254: Td, TD, Tm, ET, BT
OpFlush(st) == ClearStack(flush(st, FALSE))

\* an unknown operator that flushes
OpOtherFlushes(st) == ClearStack(flush(st, FALSE))

\* lines 255-256
OpOther(st) == ClearStack(st)

\* lines 218-256: the operator op
Operator(st, op) ==
  IF op = OpTjName THEN OpTj(st)
  ELSE IF op = OpQuoteName THEN OpQuote(st)
  ELSE IF op = OpDQuoteName THEN OpDQuote(st)
  ELSE IF op = OpTJName THEN OpTJ(st)
  ELSE IF op \in {OpTdName, OpTDName, OpTmName} THEN OpFlush(st)
  ELSE IF op = OpETName THEN OpFlush(st)
  ELSE IF op = OpBTName THEN OpFlush(st)
  ELSE OpOther(st)

\* lines 213-256: the body of the for loop for the token t
InterpretToken(st, t) ==
  IF t.typ \in {"STRING", "ARRAY", "NUMBER"}
  THEN [st EXCEPT !.stack = Append(st.stack, t)]
  ELSE IF t.typ # "NAME" THEN st
  ELSE Operator(st, t.s)

RECURSIVE InterpretLoop(_, _, _)
InterpretLoop(st, tokens, p) ==
  IF p > Len(tokens) THEN st
  ELSE InterpretLoop(InterpretToken(st, tokens[p]), tokens, p + 1)

\* lines 199-258
interpret(tokens) == flush(InterpretLoop(InterpretStart, tokens, 1), FALSE).lines

----------------------------------------------------------------------------
(* extract_text *)

\* the literals of the pattern of line 263: stream, endstream, \nendstream
StreamWord == <<115, 116, 114, 101, 97, 109>>
EndStreamWord == <<101, 110, 100>> \o StreamWord
LfEndStream == <<10>> \o EndStreamWord

\* data[p:p + len(w)] == w
Lit(data, p, w) == Slice(data, p, p + Len(w)) = w

\* p < len(data) and data[p] == b
ByteAt(data, p, b) == p < Len(data) /\ At(data, p) = b

NoPos == 0 - 1

\* stream\r?\n tried at s: the position after it, NoPos when it does not match.
\* The greedy \r? takes the CR when there is one; giving it back cannot help,
\* the \n would then meet that CR.
StartMarker(data, s) ==
  IF ~Lit(data, s, StreamWord) THEN NoPos
  ELSE IF ByteAt(data, s + 6, 13) /\ ByteAt(data, s + 7, 10) THEN s + 8
  ELSE IF ByteAt(data, s + 6, 10) THEN s + 7
  ELSE NoPos

\* \r?\nendstream matched without the CR
EndMarkerNoCR(data, e) ==
  IF Lit(data, e, LfEndStream) THEN e + 10 ELSE NoPos

\* \r?\nendstream tried at e: the position after it, NoPos when it does not match
EndMarker(data, e) ==
  IF ByteAt(data, e, 13) /\ Lit(data, e + 1, LfEndStream) THEN e + 11
  ELSE IF Lit(data, e, LfEndStream) THEN e + 10
  ELSE NoPos

\* (.*?) with DOTALL, tried from e on: the lazy group takes one more byte, of
\* any value, each time the rest of the pattern does not match; the end of the
\* group, NoPos when the rest never matches
RECURSIVE GroupEnd(_, _)
GroupEnd(data, e) ==
  IF e > Len(data) THEN NoPos
  ELSE IF EndMarker(data, e) # NoPos THEN e
  ELSE GroupEnd(data, e + 1)

\* a match object: the match is data[s:z], its group data[a:b]
NoMatch == [ok |-> FALSE, s |-> 0, a |-> 0, b |-> 0, z |-> 0]

MatchGroup(data, s, a, b) ==
  IF b = NoPos THEN NoMatch
  ELSE [ok |-> TRUE, s |-> s, a |-> a, b |-> b, z |-> EndMarker(data, b)]

MatchFrom(data, s, a) ==
  IF a = NoPos THEN NoMatch ELSE MatchGroup(data, s, a, GroupEnd(data, a))

\* pattern.match(data, s)
MatchAt(data, s) == MatchFrom(data, s, StartMarker(data, s))

\* pattern.search(data, pos): the match with the leftmost start at or after pos
RECURSIVE Search(_, _)
SearchTry(data, pos, m) == IF m.ok THEN m ELSE Search(data, pos + 1)

Search(data, pos) ==
  IF pos > Len(data) THEN NoMatch ELSE SearchTry(data, pos, MatchAt(data, pos))

\* pattern.findall(data) from pos on: the groups of the successive matches,
\* each search starting where the match before ended
RECURSIVE FindAllFrom(_, _)
FindAllAfter(data, m) ==
  IF m.ok THEN <<Slice(data, m.a, m.b)>> \o FindAllFrom(data, m.z) ELSE << >>

FindAllFrom(data, pos) == FindAllAfter(data, Search(data, pos))

findall(data) == FindAllFrom(data, 0)

\* zlib.compress(b"(b)Tj")
ZlibStream == <<120, 156, 211, 72, 210, 12, 201, 2, 0, 3, 226, 1, 114>>

\* ZlibStream without its last byte: zlib.decompress raises zlib.error
\* (incomplete or truncated stream)
TruncatedStream == SubSeq(ZlibStream, 1, Len(ZlibStream) - 1)

\* zlib.decompress(raw) on the ranges of the model: ZlibStream inflates to
\* (b)Tj, every other range of SampleChunks is no complete zlib stream and
\* raises zlib.error.  [ok, bytes]
zlib_decompress(raw) ==
  IF raw = ZlibStream THEN [ok |-> TRUE, bytes |-> <<40, 98, 41, 84, 106>>]
  ELSE [ok |-> FALSE, bytes |-> << >>]

\* a range that does not inflate is tokenized as if it were empty
ChunkOfDropRaw(raw, z) == IF z.ok THEN z.bytes ELSE << >>

\* lines 266-270: chunk after the try statement, z the outcome of zlib.decompress
ChunkOf(raw, z) == IF z.ok THEN z.bytes ELSE raw

\* lines 266-270: the bytes tokenized for the range raw
Chunk(raw) == ChunkOf(raw, zlib_decompress(raw))

\* lines.extend(new) with the arguments swapped
ExtendFront(old, new) == new \o old

\* line 274: lines.extend(new)
Extend(old, new) == old \o new

\* the locals of a call of interpret kept from the call before
InterpretKeepLocals(prev) == [prev EXCEPT !.lines = << >>]

\* lines 200-202: the locals of a new call of interpret; prev are those of the
\* call before, which it does not see
InterpretCall(prev) == InterpretStart

\* the second loop with "if not prev_blank" dropped
CleanLineKeepBlanks(c, line) ==
  IF Strip(line) = << >>
  THEN [cleaned |-> Append(c.cleaned, << >>), prev_blank |-> TRUE]
  ELSE [cleaned |-> Append(c.cleaned, Strip(line)), prev_blank |-> FALSE]

\* lines 278-285: the body of the second for loop on c = [cleaned, prev_blank]
CleanLine(c, line) ==
  IF Strip(line) = << >>
  THEN [cleaned |-> IF ~c.prev_blank THEN Append(c.cleaned, << >>) ELSE c.cleaned,
        prev_blank |-> TRUE]
  ELSE [cleaned |-> Append(c.cleaned, Strip(line)), prev_blank |-> FALSE]

\* '\n'.join(ls)
RECURSIVE Join(_)
Join(ls) ==
  IF ls = << >> THEN << >>
  ELSE IF Len(ls) = 1 THEN ls[1]
  ELSE ls[1] \o <<10>> \o Join(Tail(ls))

----------------------------------------------------------------------------
(* State *)

VARIABLES
  data,       \* the byte buffer a decoder or the tokenizer works on
  rs,         \* read_string: its locals [i, depth, buf, pc]
  hx,         \* read_hex_string: its locals [i, hex_chars, text, pc]
  ra,         \* read_array: its locals [st, arr, i, pc]
  i,          \* tokenize: the scan position
  j,          \* tokenize: the end of the bare token scanned last, NoPos while unbound
  yielded,    \* tokenize: the tokens yielded so far
  tpc,        \* tokenize: "scan", "yield" (suspended at the yield of line 193 or
              \* 195, before line 196), "done" (returned) or "raise"
  ist,        \* interpret: its locals [stack, lines, current]
  tok,        \* interpret: the token (typ, val) of the for loop
  ntok,       \* interpret: the number of tokens taken from its argument
  ipc,        \* interpret: "loop" or "returned"
  fpos,       \* pattern.findall: the position the search for the next match starts at
  spans,      \* pattern.findall: the ranges [a, b] of data matched by the group so far
  raws,       \* extract_text: the ranges found by pattern.findall(data)
  nraw,       \* extract_text: the number of ranges taken by the first for loop
  chunk,      \* extract_text: the bytes tokenized for the range at hand
  tokens,     \* extract_text: list(tokenize(chunk)) of the range at hand
  lines,      \* extract_text: the merged line list
  cleaned,    \* extract_text: the assembled lines
  prev_blank, \* extract_text: the last line assembled was blank
  nline,      \* extract_text: the number of lines taken by the second for loop
  result,     \* extract_text: the text returned
  epc         \* extract_text: "find", "found", "chunks", "interpret", "clean", "done", "raise", "hang"

strVars == <<rs>>
hexVars == <<hx>>
arrVars == <<ra>>
findVars == <<fpos, spans>>
tokVars == <<i, j, yielded, tpc>>
intVars == <<ist, tok, ntok, ipc>>
extVars == <<raws, nraw, chunk, tokens, lines, cleaned, prev_blank, nline, result, epc>>
vars == <<data, rs, hx, ra, i, j, yielded, tpc, ist, tok, ntok, ipc, fpos, spans,
          raws, nraw, chunk, tokens, lines, cleaned, prev_blank, nline, result, epc>>

\* All sequences over S of length at most n
SeqsUpTo(S, n) == UNION {[1..m -> S] : m \in 0..n}

StrIdle == rs = [i |-> 0, depth |-> 1, buf |-> << >>, pc |-> "idle"]
HexIdle == hx = [i |-> 0, hex_chars |-> << >>, text |-> << >>, pc |-> "idle"]
ArrIdle == ra = [st |-> "ok", arr |-> << >>, i |-> 0, pc |-> "idle"]
FindIdle == fpos = 0 /\ spans = << >>
TokIdle == i = 0 /\ j = NoPos /\ yielded = << >> /\ tpc = "idle"
NoToken == Value("none", << >>, NumInt(0), << >>)
IntIdle == ist = InterpretStart /\ tok = NoToken /\ ntok = 0 /\ ipc = "idle"
ExtIdle ==
  /\ raws = << >> /\ nraw = 0 /\ chunk = << >> /\ tokens = << >> /\ lines = << >>
  /\ cleaned = << >>
  /\ prev_blank = FALSE /\ nline = 0 /\ result = << >> /\ epc = "idle"

----------------------------------------------------------------------------
(* read_string as a state machine: one action per loop iteration *)

MaxStrLen == 4

\* ( ) \ 0 3 4 7 a
StrAlphabet == {40, 41, 92, 48, 51, 52, 55, 97}

StrInit ==
  /\ data \in SeqsUpTo(StrAlphabet, MaxStrLen)
  /\ rs = [i |-> 0, depth |-> 1, buf |-> << >>, pc |-> "loop"]
  /\ HexIdle
  /\ ArrIdle
  /\ FindIdle
  /\ TokIdle
  /\ IntIdle
  /\ ExtIdle

\* lines 14-58: one iteration, ending in the loop, at a break or in an exception
ReadStringStep ==
  /\ rs.pc = "loop"
  /\ ReadStringCond(data, rs)
  /\ rs' = ReadStringIter(data, rs)
  /\ UNCHANGED <<data, hexVars, arrVars, findVars, tokVars, intVars, extVars>>

\* line 14 false, then line 59
ReadStringReturn ==
  /\ rs.pc = "loop"
  /\ ~ReadStringCond(data, rs)
  /\ rs' = [rs EXCEPT !.pc = "return"]
  /\ UNCHANGED <<data, hexVars, arrVars, findVars, tokVars, intVars, extVars>>

StrNext == ReadStringStep \/ ReadStringReturn

SpecStr == StrInit /\ [][StrNext]_vars

----------------------------------------------------------------------------
(* read_hex_string as a state machine: one action per loop iteration *)

MaxHexLen == 4

\* > 4 8 f g space VT
HexAlphabet == {62, 52, 56, 102, 103, 32, 11}

\* read_hex_string(data, 0) on a buffer that starts with '<', after lines 86-87
HexInit ==
  /\ \E body \in SeqsUpTo(HexAlphabet, MaxHexLen) : data = <<60>> \o body
  /\ hx = [i |-> 1, hex_chars |-> << >>, text |-> << >>, pc |-> "loop"]
  /\ StrIdle
  /\ ArrIdle
  /\ FindIdle
  /\ TokIdle
  /\ IntIdle
  /\ ExtIdle

HexApply(r) == hx' = [hx EXCEPT !.i = r.i, !.hex_chars = r.hex_chars]

\* lines 88-92: one iteration
HexStep ==
  /\ hx.pc = "loop"
  /\ HexCond(data, hx.i)
  /\ HexApply(HexIter(data, hx.i, hx.hex_chars))
  /\ UNCHANGED <<data, strVars, arrVars, findVars, tokVars, intVars, extVars>>

HexFinish(r) == hx' = [hx EXCEPT !.i = r.i, !.text = r.text, !.pc = "return"]

\* line 88 false, then lines 93-102
HexReturn ==
  /\ hx.pc = "loop"
  /\ ~HexCond(data, hx.i)
  /\ HexFinish(HexResult(data, hx))
  /\ UNCHANGED <<data, strVars, arrVars, findVars, tokVars, intVars, extVars>>

HexNext == HexStep \/ HexReturn

SpecHex == HexInit /\ [][HexNext]_vars

----------------------------------------------------------------------------
(* read_array as a state machine: one action per iteration of its loop; the *)
(* decoders it calls and the nested arrays are evaluated within an iteration *)

MaxArrLen == 4

\* [ ] ( ) < > { } / space 1 a
ArrAlphabet == {91, 93, 40, 41, 60, 62, 123, 125, 47, 32, 49, 97}

\* read_array(data, 0) on a buffer that starts with '[', after lines 106-107
ArrInit ==
  /\ \E body \in SeqsUpTo(ArrAlphabet, MaxArrLen) : data = <<91>> \o body
  /\ ra = [st |-> "ok", arr |-> << >>, i |-> 1, pc |-> "loop"]
  /\ StrIdle
  /\ HexIdle
  /\ FindIdle
  /\ TokIdle
  /\ IntIdle
  /\ ExtIdle

\* lines 108-148: one iteration; it returns at the ']' (pc "return"), goes on,
\* raises or never ends
ReadArrayStep ==
  /\ ra.pc = "loop"
  /\ ra.st = "ok"
  /\ ra.i < Len(data)
  /\ ra' = ReadArrayIter(data, ra.i, ra.arr)
  /\ UNCHANGED <<data, strVars, hexVars, findVars, tokVars, intVars, extVars>>

\* line 108 false, then line 149: the end of data
ReadArrayEnd ==
  /\ ra.pc = "loop"
  /\ ra.st = "ok"
  /\ ~(ra.i < Len(data))
  /\ ra' = [ra EXCEPT !.pc = "end"]
  /\ UNCHANGED <<data, strVars, hexVars, findVars, tokVars, intVars, extVars>>

ArrNext == ReadArrayStep \/ ReadArrayEnd

SpecArr == ArrInit /\ [][ArrNext]_vars

----------------------------------------------------------------------------
(* tokenize as a state machine: one action per iteration of its scan loop *)

MaxTokLen == 3

\* space % ( ) / 1 < > T [ \ ] j { }
TokAlphabet == {32, 37, 40, 41, 47, 49, 60, 62, 84, 91, 92, 93, 106, 123, 125}

TokInit ==
  /\ data \in SeqsUpTo(TokAlphabet, MaxTokLen)
  /\ i = 0
  /\ j = NoPos
  /\ yielded = << >>
  /\ tpc = "scan"
  /\ StrIdle
  /\ HexIdle
  /\ ArrIdle
  /\ FindIdle
  /\ IntIdle
  /\ ExtIdle

\* The effect of the iteration r on the generator, up to the loop head or to
\* the yield of a bare token, where i is still the start of the token.
TokenizeApply(r) ==
  /\ yielded' = yielded \o r.yield
  /\ j' = IF r.bare THEN r.i ELSE j
  /\ i' = IF r.bare /\ r.yield # << >> THEN i ELSE r.i
  /\ tpc' = IF r.st = "raise" THEN "raise"
            ELSE IF r.bare /\ r.yield # << >> THEN "yield"
            ELSE "scan"

\* lines 155-196: one iteration of the scan loop, run from the loop head to
\* the next loop head or, for a bare token, to its yield
TokenizeStep ==
  /\ tpc = "scan"
  /\ i < Len(data)
  /\ TokenizeApply(TokenizeIter(data, i))
  /\ UNCHANGED <<data, hexVars, arrVars, findVars, strVars, intVars, extVars>>

\* line 196: the consumer resumes the generator after the yield of a bare token
TokenizeResume ==
  /\ tpc = "yield"
  /\ i' = j
  /\ tpc' = "scan"
  /\ UNCHANGED <<data, hexVars, arrVars, findVars, j, yielded, strVars, intVars, extVars>>

\* line 155 false: the generator is exhausted
TokenizeReturn ==
  /\ tpc = "scan"
  /\ ~(i < Len(data))
  /\ tpc' = "done"
  /\ UNCHANGED <<data, hexVars, arrVars, findVars, i, j, yielded, strVars, intVars, extVars>>

TokNext == TokenizeStep \/ TokenizeResume \/ TokenizeReturn

SpecTok == TokInit /\ [][TokNext]_vars

----------------------------------------------------------------------------
(* interpret as a state machine: one action per token of its argument *)

MaxTokens == 6

\* (a)   ()   1
\* [(a) -121 (b)]   [(a) -120 [(c)] -120.5]   [-inf nan (x) -119.5]
TestArrays ==
  { <<StrItem(<<97>>), NumItem(NumInt(-121)), StrItem(<<98>>)>>,
    <<StrItem(<<97>>), NumItem(NumInt(-120)), ListItem(<<StrItem(<<99>>)>>),
      NumItem(NumFloat(-1205, -1))>>,
    <<NumItem(NumInf(-1)), NumItem(NumNan), StrItem(<<120>>),
      NumItem(NumFloat(-1195, -1))>> }

Operands ==
  {StringTok(<<97>>), StringTok(<< >>), NumberTok(NumInt(1))}
    \cup {ArrayTok(a) : a \in TestArrays}

\* the nine operators, the unknown operator re and the name /Tj
Names ==
  {NameTok(n) : n \in {OpTjName, OpQuoteName, OpDQuoteName, OpTJName, OpTdName,
                       OpTDName, OpTmName, OpETName, OpBTName,
                       <<114, 101>>, <<47, 84, 106>>}}

Tokens == Operands \cup Names

IntInit ==
  /\ data = << >>
  /\ StrIdle
  /\ HexIdle
  /\ ArrIdle
  /\ FindIdle
  /\ TokIdle
  /\ ExtIdle
  /\ ist = InterpretStart
  /\ tok = NoToken
  /\ ntok = 0
  /\ ipc = "loop"

\* lines 212-256: the for loop takes the next token t
InterpretStep ==
  /\ ipc = "loop"
  /\ ntok < MaxTokens
  /\ \E t \in Tokens :
       /\ tok' = t
       /\ ist' = InterpretToken(ist, t)
  /\ ntok' = ntok + 1
  /\ UNCHANGED <<data, hexVars, arrVars, findVars, strVars, tokVars, ipc, extVars>>

\* lines 257-258: the tokens are exhausted
InterpretReturn ==
  /\ ipc = "loop"
  /\ ist' = flush(ist, FALSE)
  /\ ipc' = "returned"
  /\ UNCHANGED <<data, hexVars, arrVars, findVars, strVars, tokVars, tok, ntok, extVars>>

IntNext == InterpretStep \/ InterpretReturn

SpecInterp == IntInit /\ [][IntNext]_vars

----------------------------------------------------------------------------
(* extract_text as a state machine: one action per iteration of its loops, *)
(* the call of interpret unfolded into one action per token                *)

MaxChunks == 3

\* (a)Tj(c)/Tj[(c)]/TJ/BT/ET/Td/TD/Tm 1 1(c)/" (c)/' (a)Tj
SlashSample ==
  <<40, 97, 41, 84, 106, 40, 99, 41, 47, 84, 106, 91, 40, 99, 41, 93, 47, 84, 74,
    47, 66, 84, 47, 69, 84, 47, 84, 100, 47, 84, 68, 47, 84, 109, 32, 49, 32, 49,
    40, 99, 41, 47, 34, 32, 40, 99, 41, 47, 39, 32, 40, 97, 41, 84, 106>>

\* (a)Tj   ( )Tj   (a)   Tj   zlib.compress(b"(b)Tj")   the empty range
\* ( )' (TAB)' ( a )'   the truncated zlib stream   the sample with /names
SampleChunks ==
  { <<40, 97, 41, 84, 106>>,
    <<40, 32, 41, 84, 106>>,
    <<40, 97, 41>>,
    <<84, 106>>,
    ZlibStream,
    << >>,
    <<40, 32, 41, 39, 32, 40, 9, 41, 39, 32, 40, 32, 97, 32, 41, 39>>,
    TruncatedStream,
    SlashSample }

\* lines 262-264, after pattern.findall(data)
ExtInit ==
  /\ data = << >>
  /\ StrIdle
  /\ HexIdle
  /\ ArrIdle
  /\ FindIdle
  /\ TokIdle
  /\ IntIdle
  /\ raws \in SeqsUpTo(SampleChunks, MaxChunks)
  /\ nraw = 0
  /\ chunk = << >>
  /\ tokens = << >>
  /\ lines = << >>
  /\ cleaned = << >>
  /\ prev_blank = FALSE
  /\ nline = 0
  /\ result = << >>
  /\ epc = "chunks"

\* lines 271-274 for the outcome r of list(tokenize(chunk))
ExtractTokens(r) ==
  IF r.st # "ok"
  THEN epc' = r.st /\ UNCHANGED <<tokens, intVars>>
  ELSE IF r.toks = << >>
  THEN tokens' = << >> /\ UNCHANGED <<epc, intVars>>
  ELSE /\ epc' = "interpret"
       /\ tokens' = r.toks
       /\ ist' = InterpretCall(ist)
       /\ ntok' = 0
       /\ ipc' = "loop"
       /\ UNCHANGED tok

\* lines 265-274: the first for loop takes the next range, up to the call of interpret
ExtractChunk ==
  /\ epc = "chunks"
  /\ nraw < Len(raws)
  /\ nraw' = nraw + 1
  /\ chunk' = Chunk(raws[nraw + 1])
  /\ ExtractTokens(tokenize(Chunk(raws[nraw + 1])))
  /\ UNCHANGED <<data, hexVars, arrVars, findVars, strVars, tokVars, raws, lines, cleaned, prev_blank, nline, result>>

\* lines 212-256 in the call of line 274
ChunkToken ==
  /\ epc = "interpret"
  /\ ntok < Len(tokens)
  /\ tok' = tokens[ntok + 1]
  /\ ist' = InterpretToken(ist, tokens[ntok + 1])
  /\ ntok' = ntok + 1
  /\ UNCHANGED <<data, hexVars, arrVars, findVars, strVars, tokVars, ipc, extVars>>

\* lines 257-258, then lines.extend of line 274
ChunkReturn ==
  /\ epc = "interpret"
  /\ ~(ntok < Len(tokens))
  /\ ist' = flush(ist, FALSE)
  /\ ipc' = "returned"
  /\ lines' = Extend(lines, flush(ist, FALSE).lines)
  /\ epc' = "chunks"
  /\ UNCHANGED <<data, hexVars, arrVars, findVars, strVars, tokVars, tok, ntok, raws, nraw, chunk, tokens,
                 cleaned, prev_blank, nline, result>>

\* lines 275-276
BeginClean ==
  /\ epc = "chunks"
  /\ ~(nraw < Len(raws))
  /\ cleaned' = << >>
  /\ prev_blank' = FALSE
  /\ nline' = 0
  /\ epc' = "clean"
  /\ UNCHANGED <<data, hexVars, arrVars, findVars, strVars, tokVars, intVars, raws, nraw, chunk, tokens, lines,
                 result>>

CleanApply(c) == cleaned' = c.cleaned /\ prev_blank' = c.prev_blank

\* lines 277-285: the second for loop takes the next line
CleanNext ==
  /\ epc = "clean"
  /\ nline < Len(lines)
  /\ CleanApply(CleanLine([cleaned |-> cleaned, prev_blank |-> prev_blank],
                          lines[nline + 1]))
  /\ nline' = nline + 1
  /\ UNCHANGED <<data, hexVars, arrVars, findVars, strVars, tokVars, intVars, raws, nraw, chunk, tokens, lines,
                 result, epc>>

\* line 286
ExtractReturn ==
  /\ epc = "clean"
  /\ ~(nline < Len(lines))
  /\ result' = Join(cleaned)
  /\ epc' = "done"
  /\ UNCHANGED <<data, hexVars, arrVars, findVars, strVars, tokVars, intVars, raws, nraw, chunk, tokens, lines,
                 cleaned, prev_blank, nline>>

ExtNext ==
  ExtractChunk \/ ChunkToken \/ ChunkReturn \/ BeginClean \/ CleanNext \/ ExtractReturn

SpecExtract == ExtInit /\ [][ExtNext]_vars

----------------------------------------------------------------------------
(* pattern.findall(data) of extract_text as a state machine: one action per match *)

MaxPieces == 4

\* stream\n   stream\r\n   \nendstream   \r\nendstream   CR   LF   a   endstream
\* stream\r\na\r\nendstream
Pieces ==
  { StreamWord \o <<10>>, StreamWord \o <<13, 10>>, LfEndStream, <<13>> \o LfEndStream,
    <<13>>, <<10>>, <<97>>, EndStreamWord,
    StreamWord \o <<13, 10, 97, 13>> \o LfEndStream }

\* the buffer made of the pieces ps
RECURSIVE Flatten(_)
Flatten(ps) == IF ps = << >> THEN << >> ELSE Head(ps) \o Flatten(Tail(ps))

\* lines 262-263: the buffer read, before the first match is searched
FindInit ==
  /\ \E ps \in SeqsUpTo(Pieces, MaxPieces) : data = Flatten(ps)
  /\ fpos = 0
  /\ spans = << >>
  /\ raws = << >>
  /\ epc = "find"
  /\ nraw = 0 /\ chunk = << >> /\ tokens = << >> /\ lines = << >> /\ cleaned = << >>
  /\ prev_blank = FALSE /\ nline = 0 /\ result = << >>
  /\ StrIdle
  /\ HexIdle
  /\ ArrIdle
  /\ TokIdle
  /\ IntIdle

\* the search m from fpos found a match
FindApply(m) ==
  /\ m.ok
  /\ spans' = Append(spans, m)
  /\ raws' = Append(raws, Slice(data, m.a, m.b))
  /\ fpos' = m.z

\* line 265, pattern.findall: the next match
FindStep ==
  /\ epc = "find"
  /\ FindApply(Search(data, fpos))
  /\ UNCHANGED <<data, strVars, hexVars, arrVars, tokVars, intVars, nraw, chunk, tokens,
                 lines, cleaned, prev_blank, nline, result, epc>>

\* line 265, pattern.findall: no further match, the list is complete
FindReturn ==
  /\ epc = "find"
  /\ ~Search(data, fpos).ok
  /\ epc' = "found"
  /\ UNCHANGED <<data, strVars, hexVars, arrVars, tokVars, intVars, findVars, raws, nraw,
                 chunk, tokens, lines, cleaned, prev_blank, nline, result>>

FindNext == FindStep \/ FindReturn

SpecFind == FindInit /\ [][FindNext]_vars

----------------------------------------------------------------------------
(* Claims on tokenize and read_string *)

IterAdvances(p, r) == r.st # "hang" /\ (r.st = "ok" => r.i > p)

\* C1: every iteration of the scan loop of tokenize ends and strictly advances
\* the scan position, whatever byte stands at the position (so tokenize
\* terminates on every finite chunk).
C1_ScanLoopAdvances ==
  (tpc = "scan" /\ i < Len(data)) => IterAdvances(i, TokenizeIter(data, i))

\* the octal escape at the current position of read_string: a backslash
\* followed by an octal digit
AtOctalEscape ==
  /\ rs.pc = "loop"
  /\ ReadStringCond(data, rs)
  /\ At(data, rs.i) = 92
  /\ rs.i + 1 < Len(data)
  /\ IsOctDigit(At(data, rs.i + 1))

OctalStepOk(n, s2) ==
  /\ s2.pc = "loop"
  /\ Len(s2.buf) = Len(rs.buf) + 1
  /\ s2.i = rs.i + 1 + n

\* C2: read_string never raises; an octal escape of one to three digits
\* contributes exactly one output byte and decoding continues with the byte
\* after the escape.
C2_ReadStringNeverRaises ==
  /\ rs.pc # "raise"
  /\ AtOctalEscape =>
       OctalStepOk(Len(OctDigitsFrom(data, rs.i + 1, 1, <<At(data, rs.i + 1)>>)),
                   ReadStringIter(data, rs))

----------------------------------------------------------------------------
(* Claims on interpret *)

\* the step of the for loop that processes the token tok'
TokenStep == ipc = "loop" /\ ipc' = "loop" /\ ntok' = ntok + 1

\* the step that ends interpret
ReturnStep == ipc = "loop" /\ ipc' = "returned"

TopIs(stack, typ) == stack # << >> /\ Top(stack).typ = typ

TextOperators ==
  {OpTjName, OpQuoteName, OpDQuoteName, OpTJName, OpTdName, OpTDName, OpTmName,
   OpBTName, OpETName}

\* C3: immediately after any Name token has been processed, the operand stack
\* is empty.
C3_StackEmptyAfterName == (ntok > 0 /\ tok.typ = "NAME") => ist.stack = << >>

\* the operator t meets none of the preconditions under which it has a text
\* effect, on the stack it finds
NoTextEffect(t, stack) ==
  /\ t.typ = "NAME"
  /\ \/ t.s \in {OpTjName, OpQuoteName} /\ ~TopIs(stack, "STRING")
     \/ t.s = OpDQuoteName /\ (Len(stack) < 3 \/ ~TopIs(stack, "STRING"))
     \/ t.s = OpTJName /\ ~TopIs(stack, "ARRAY")
     \/ t.s \notin TextOperators

\* C4: an operator with no text effect changes neither the accumulator nor
\* the line list.
C4_NoTextEffectNoChange ==
  [][(TokenStep /\ NoTextEffect(tok', ist.stack)) =>
       (ist'.current = ist.current /\ ist'.lines = ist.lines)]_vars

\* TJ was processed on a String top (no text effect) with text accumulated
C4_Witness ==
  /\ tok = NameTok(OpTJName)
  /\ TopIs(ist.stack, "STRING")
  /\ ist.current # << >>
  /\ ist.lines # << >>

\* the digits of n before the decimal point
IntPart(n) == SubSeq(n.digits, 1, Len(n.digits) + n.e)

\* the numeric element n is strictly less than -120: minus infinity, or a
\* negative number whose integer part exceeds 120 or is 120 with a fraction
BelowGap(n) ==
  \/ n.k = "inf" /\ n.sign = -1
  \/ /\ n.k \in {"int", "float"}
     /\ n.sign = -1
     /\ \/ Len(IntPart(n)) > 3
        \/ /\ Len(IntPart(n)) = 3
           /\ 100 * IntPart(n)[1] + 10 * IntPart(n)[2] + IntPart(n)[3] > 120
        \/ IntPart(n) = <<1, 2, 0>> /\ n.k = "float"

\* what the element at position p of arr contributes to the accumulator
Contribution(arr, p) ==
  IF arr[p].typ = "str" THEN arr[p].s
  ELSE IF arr[p].typ = "num" /\ BelowGap(arr[p].n) THEN <<32>>
  ELSE << >>

\* the contributions of the elements of arr up to position p, in array order
RECURSIVE Contributions(_, _)
Contributions(arr, p) ==
  IF p = 0 THEN << >> ELSE Contributions(arr, p - 1) \o Contribution(arr, p)

\* the text the operator t shows on the stack it finds, for Tj and TJ
Shown(t, stack) ==
  IF t.s = OpTjName /\ TopIs(stack, "STRING") THEN Top(stack).s
  ELSE IF t.s = OpTJName /\ TopIs(stack, "ARRAY")
  THEN Contributions(Top(stack).l, Len(Top(stack).l))
  ELSE << >>

LineBreakers ==
  {OpTdName, OpTDName, OpTmName, OpBTName, OpETName, OpQuoteName, OpDQuoteName}

\* C5: as long as no Td, TD, Tm, BT, ET, ' or " is processed, the text shown
\* by Tj and TJ is appended to the accumulator with nothing in between and no
\* line is emitted, whatever other tokens occur; at the end of the chunk the
\* accumulated text becomes a single entry of the line list.
C5_TjAccumulatesOnOneLine ==
  [][/\ (TokenStep /\ tok'.typ # "NAME") =>
          (ist'.current = ist.current /\ ist'.lines = ist.lines)
     /\ (TokenStep /\ tok'.typ = "NAME" /\ tok'.s \notin LineBreakers) =>
          /\ ist'.current = ist.current \o Shown(tok', ist.stack)
          /\ ist'.lines = ist.lines
     /\ (ReturnStep /\ ist.current # << >>) =>
          ist'.lines = Append(ist.lines, ist.current)]_vars

\* (a) Tj re [(a) -121 (b)] TJ (a) Tj: one line "aa ba"
C5_Witness ==
  /\ ipc = "returned"
  /\ tok = NameTok(OpTjName)
  /\ ist.lines = << <<97, 97, 32, 98, 97>> >>

\* C6: TJ on an Array top appends, in array order, each text element and one
\* space for each numeric element strictly less than -120, nothing for the
\* other elements, and emits no line.
C6_TJAppendsArrayText ==
  [][(TokenStep /\ tok' = NameTok(OpTJName) /\ TopIs(ist.stack, "ARRAY")) =>
       /\ ist'.current =
            ist.current \o Contributions(Top(ist.stack).l, Len(Top(ist.stack).l))
       /\ ist'.lines = ist.lines]_vars

\* [(a) -121 (b)] TJ [(a) -120 [(c)] -120.5] TJ [-inf nan (x) -119.5] TJ
C6_Witness ==
  /\ tok = NameTok(OpTJName)
  /\ ntok = 6
  /\ ist.current = <<97, 32, 98, 97, 32, 32, 120>>
  /\ ist.lines = << >>

\* ' or " finds the operands it needs
QuotePrecondition(t, stack) ==
  \/ t = NameTok(OpQuoteName) /\ TopIs(stack, "STRING")
  \/ t = NameTok(OpDQuoteName) /\ Len(stack) >= 3 /\ TopIs(stack, "STRING")

\* C7: ' on a String top, and " on at least 3 operands with a String top, emit
\* the accumulator as one line if and only if it was non-empty and leave the
\* String's text as the accumulator.
C7_QuoteStartsNewLine ==
  [][(TokenStep /\ QuotePrecondition(tok', ist.stack)) =>
       /\ ist'.lines = IF ist.current # << >> THEN Append(ist.lines, ist.current)
                       ELSE ist.lines
       /\ ist'.current = Top(ist.stack).s]_vars

\* [(a) -121 (b)] TJ 1 [..] (a) ": the line "a b" is emitted, "a" is accumulated
C7_Witness ==
  /\ tok = NameTok(OpDQuoteName)
  /\ ntok = 6
  /\ ist.lines = << <<97, 32, 98>> >>
  /\ ist.current = <<97>>

\* the step performs a flush
FlushStep ==
  \/ TokenStep /\ tok'.typ = "NAME" /\ tok'.s \in LineBreakers \ {OpQuoteName, OpDQuoteName}
  \/ TokenStep /\ QuotePrecondition(tok', ist.stack)
  \/ ReturnStep

NoEmptyLine(ls) == \A p \in 1..Len(ls) : ls[p] # << >>

\* C8: no entry of the line list is the empty string, and a flush performed
\* while the accumulator is empty leaves the line list unchanged.
C8_FlushEmitsNoBlankLine ==
  /\ [](NoEmptyLine(ist.lines))
  /\ [][(FlushStep /\ ist.current = << >>) => ist'.lines = ist.lines]_vars

\* ET as the first token, then the final flush: two flushes of an empty accumulator
C8_Witness ==
  /\ ipc = "returned"
  /\ ntok = 1
  /\ tok = NameTok(OpETName)
  /\ ist.lines = << >>

----------------------------------------------------------------------------
(* Claims on extract_text *)

\* the merged line at position p is empty after trimming
Blank(p) == Strip(lines[p]) = << >>

\* the line at position p is not blank, or it is the first of a run of blank lines
Kept(p) == ~Blank(p) \/ p = 1 \/ ~Blank(p - 1)

\* the first p merged lines, trimmed, each run of blank lines reduced to its first
RECURSIVE Assembled(_)
Assembled(p) ==
  IF p = 0 THEN << >>
  ELSE Assembled(p - 1) \o (IF Kept(p) THEN <<Strip(lines[p])>> ELSE << >>)

NoAdjacentEmpty(ls) == \A p \in 1..(Len(ls) - 1) : ~(ls[p] = << >> /\ ls[p + 1] = << >>)

\* C9: the assembled lines contain no two adjacent empty lines: each maximal
\* run of lines that are empty after trimming becomes exactly one empty line,
\* every other line appears once, trimmed, in its original relative order.
C9_BlankRunsCollapse ==
  epc \in {"clean", "done"} =>
    (cleaned = Assembled(nline) /\ NoAdjacentEmpty(cleaned))

\* three blank lines in a row between two lines of text, one of them trimmed
C9_Witness ==
  /\ epc = "done"
  /\ Len(cleaned) >= 3
  /\ \E p \in 1..(Len(lines) - 2) : Blank(p) /\ Blank(p + 1) /\ Blank(p + 2)
  /\ \E p \in 1..Len(lines) : ~Blank(p) /\ Strip(lines[p]) # lines[p]

\* the line list of the range raw interpreted on its own
ChunkLines(raw) == interpret(tokenize(Chunk(raw)).toks)

\* the line lists of the first p ranges, concatenated in discovery order
RECURSIVE Merged(_)
Merged(p) == IF p = 0 THEN << >> ELSE Merged(p - 1) \o ChunkLines(raws[p])

\* the number of ranges whose lines are in the merged list
RangesMerged ==
  IF epc = "interpret" THEN nraw - 1 ELSE IF epc = "chunks" THEN nraw ELSE Len(raws)

Has(line, c) == \E p \in 1..Len(line) : line[p] = c

\* C10: the merged line list is the concatenation of the per-chunk line lists
\* in discovery order; the operand stack and the accumulator start empty for
\* each chunk; no line holds text shown in two chunks (in the ranges of the
\* model a chunk shows the letter a or the letter b, never both).
C10_MergeInDiscoveryOrder ==
  epc \in {"chunks", "interpret", "clean", "done"} =>
    /\ lines = Merged(RangesMerged)
    /\ (epc = "interpret" /\ ntok = 0) => (ist.stack = << >> /\ ist.current = << >>)
    /\ \A p \in 1..Len(lines) : ~(Has(lines[p], 97) /\ Has(lines[p], 98))

\* (a)Tj, the zlib stream of (b)Tj, (a)Tj: the lines a, b, a
C10_Witness ==
  /\ epc = "done"
  /\ raws = << <<40, 97, 41, 84, 106>>, ZlibStream, <<40, 97, 41, 84, 106>> >>
  /\ lines = << <<97>>, <<98>>, <<97>> >>

----------------------------------------------------------------------------
(* Claims on the nesting depth of read_string *)

\* read_string is in its loop at the unescaped byte b
AtByte(b) == rs.pc = "loop" /\ ReadStringCond(data, rs) /\ At(data, rs.i) = b

\* read_string is in its loop at a backslash followed by a parenthesis
AtEscapedParen ==
  AtByte(92) /\ rs.i + 1 < Len(data) /\ At(data, rs.i + 1) \in {40, 41}

\* the number of '(' less the number of ')' among the first k bytes of s
RECURSIVE Nest(_, _)
Nest(s, k) ==
  IF k = 0 THEN 0
  ELSE Nest(s, k - 1) + (IF s[k] = 40 THEN 1 ELSE IF s[k] = 41 THEN 0 - 1 ELSE 0)

NoBackslash == \A k \in 1..Len(data) : data[k] # 92

\* on a buffer without escapes: the depth is 1 plus the nesting of the bytes
\* read, and the output is the bytes read, less the ')' that closed the string
PlainDecode ==
  /\ rs.depth = 1 + Nest(data, rs.i)
  /\ rs.depth > 0 => rs.buf = SubSeq(data, 1, rs.i)
  /\ rs.depth = 0 =>
       /\ rs.pc = "return"
       /\ data[rs.i] = 41
       /\ rs.buf = SubSeq(data, 1, rs.i - 1)
       /\ Nest(rs.buf, Len(rs.buf)) = 0

\* C11: the depth of read_string starts at 1 and is never negative; an
\* unescaped '(' is kept and opens a level, an unescaped ')' at depth above 1
\* is kept and closes a level, the ')' met at depth 1 ends the decoding, is not
\* part of the output and the position returned is the one just past it; an
\* escaped parenthesis is kept and leaves the depth unchanged; so a literal
\* with balanced nested parentheses decodes to its inner bytes.
C11_DepthTracksParens ==
  /\ [](rs.depth >= 0 /\ (rs.i = 0 => rs.depth = 1) /\ (NoBackslash => PlainDecode))
  /\ [][/\ AtByte(40) =>
            rs' = [rs EXCEPT !.i = rs.i + 1, !.depth = rs.depth + 1,
                             !.buf = Append(rs.buf, 40)]
        /\ (AtByte(41) /\ rs.depth > 1) =>
            rs' = [rs EXCEPT !.i = rs.i + 1, !.depth = rs.depth - 1,
                             !.buf = Append(rs.buf, 41)]
        /\ (AtByte(41) /\ rs.depth = 1) =>
            rs' = [rs EXCEPT !.i = rs.i + 1, !.depth = 0, !.pc = "return"]
        /\ AtEscapedParen =>
            rs' = [rs EXCEPT !.i = rs.i + 2,
                             !.buf = Append(rs.buf, At(data, rs.i + 1))]]_vars

\* read_string on (a)) : the output (a), the position 4 just past the closing ')'
C11_Witness ==
  /\ data = <<40, 97, 41, 41>>
  /\ rs.pc = "return"
  /\ rs.depth = 0
  /\ rs.buf = <<40, 97, 41>>
  /\ rs.i = 4

----------------------------------------------------------------------------
(* Claims on read_hex_string *)

\* the position of the first '>' of d at or after k, len(d) if there is none
RECURSIVE FirstClose(_, _)
FirstClose(d, k) ==
  IF k >= Len(d) \/ At(d, k) = 62 THEN k ELSE FirstClose(d, k + 1)

\* s with the whitespace of the program removed
RECURSIVE Unspaced(_)
Unspaced(s) ==
  IF s = << >> THEN << >>
  ELSE (IF Head(s) \in WHITESPACE THEN << >> ELSE <<Head(s)>>) \o Unspaced(Tail(s))

\* the characters between '<' and the first '>', whitespace removed
HexBody == Unspaced(Slice(data, 1, FirstClose(data, 1)))

AllHex(s) == \A k \in 1..Len(s) : IsHexDigit(s[k])

Padded(s) == IF Len(s) % 2 = 1 THEN Append(s, 48) ELSE s

\* the bytes of the digit pairs of an even-length digit string
RECURSIVE PairBytes(_)
PairBytes(s) ==
  IF s = << >> THEN << >>
  ELSE <<16 * HexVal(s[1]) + HexVal(s[2])>> \o PairBytes(SubSeq(s, 3, Len(s)))

\* C12: read_hex_string returns the bytes of the digit pairs of the characters
\* between '<' and the first '>' (whitespace removed, an odd-length digit
\* string padded with one '0') when all of them are hex digits, and the empty
\* string when any of them is not a hex digit.
C12_HexDecodesOrEmpty ==
  hx.pc = "return" =>
    hx.text = IF AllHex(HexBody) THEN PairBytes(Padded(HexBody)) ELSE << >>

----------------------------------------------------------------------------
(* Claims on read_array *)

\* the buffer holds no ']' at all: whatever it starts is not closed
NoCloseBracket == \A k \in 1..Len(data) : data[k] # 93

\* C13: an array that is not closed before the end of the buffer (whatever
\* unclosed literal or hex string it holds) is read without raising and
\* without looping for ever, and read_array returns at the end of data with the
\* position equal to the buffer length, never beyond it.
C13_UnterminatedReturnsAtEnd ==
  NoCloseBracket =>
    /\ ra.st = "ok"
    /\ ra.i <= Len(data)
    /\ ra.pc # "return"
    /\ ra.pc = "end" => ra.i = Len(data)

\* C14: read_array terminates on every buffer, whatever bytes stand between
\* the elements, and it returns only just past a ']' or at the end of data.
C14_ReadArrayTerminates ==
  /\ ra.st # "hang"
  /\ ra.pc = "return" => (ra.i >= 1 /\ At(data, ra.i - 1) = 93)
  /\ ra.pc = "end" => ra.i = Len(data)

----------------------------------------------------------------------------
(* Claims on the ranges located by pattern.findall *)

\* 'stream', an optional CR and an LF stand at s and end right before a
StartsAt(s, a) ==
  /\ Lit(data, s, StreamWord)
  /\ \/ a = s + 7 /\ ByteAt(data, s + 6, 10)
     \/ a = s + 8 /\ ByteAt(data, s + 6, 13) /\ ByteAt(data, s + 7, 10)

\* an optional CR, an LF and 'endstream' start at b and end right before z
EndsAt(b, z) ==
  \/ z = b + 10 /\ Lit(data, b, LfEndStream)
  \/ z = b + 11 /\ ByteAt(data, b, 13) /\ Lit(data, b + 1, LfEndStream)

EndMarkerStartsAt(b) == \E z \in {b + 10, b + 11} : EndsAt(b, z)

\* a start marker begins at s and some end marker begins at or after its end
ChunkStartsAt(s) ==
  \E a \in {s + 7, s + 8} :
    StartsAt(s, a) /\ (\E b \in a..Len(data) : EndMarkerStartsAt(b))

\* the position the search for the k-th chunk started at
SearchedFrom(k) == IF k = 1 THEN 0 ELSE spans[k - 1].z

\* the k-th range found is the first chunk at or after the end of the one before
IsChunk(k) ==
  /\ spans[k].s >= SearchedFrom(k)
  /\ StartsAt(spans[k].s, spans[k].a)
  /\ spans[k].a <= spans[k].b
  /\ EndsAt(spans[k].b, spans[k].z)
  /\ \A e \in spans[k].a..(spans[k].b - 1) : ~EndMarkerStartsAt(e)
  /\ \A t \in SearchedFrom(k)..(spans[k].s - 1) : ~ChunkStartsAt(t)
  /\ raws[k] = Slice(data, spans[k].a, spans[k].b)

\* C15: the chunks located are byte ranges taken left to right without
\* overlap: each starts right after 'stream', an optional CR and an LF, ends
\* right before the first following optional CR, LF and 'endstream' (so no
\* byte of either marker is in the chunk), and is the first such range at or
\* after the 'endstream' of the chunk before it; when the search ends no
\* further chunk follows.
C15_ChunksBetweenMarkers ==
  epc \in {"find", "found"} =>
    /\ Len(raws) = Len(spans)
    /\ \A k \in 1..Len(spans) : IsChunk(k)
    /\ fpos = SearchedFrom(Len(spans) + 1)
    /\ epc = "found" => \A t \in fpos..Len(data) : ~ChunkStartsAt(t)

\* two chunks found, the first between CR LF markers and not empty
C15_Witness ==
  /\ epc = "found"
  /\ Len(spans) = 2
  /\ spans[1].a = spans[1].s + 8
  /\ spans[1].z = spans[1].b + 11
  /\ raws[1] # << >>

----------------------------------------------------------------------------
(* Claims on the bytes tokenized for a range and on /names *)

\* ls ends with the entries of tail
EndsWith(ls, tail) ==
  /\ Len(ls) >= Len(tail)
  /\ SubSeq(ls, Len(ls) - Len(tail) + 1, Len(ls)) = tail

\* the range taken last by the first for loop
LastRaw == raws[nraw]

\* C16: the bytes tokenized for a range are the inflated bytes when
\* zlib.decompress succeeds and the raw bytes of the range, unmodified, when it
\* fails; a failure raises nothing and the lines of the raw bytes are merged
\* like those of any range.
C16_InflateOrRaw ==
  /\ epc # "raise"
  /\ (nraw > 0 /\ epc \in {"chunks", "interpret"}) =>
       /\ zlib_decompress(LastRaw).ok => chunk = zlib_decompress(LastRaw).bytes
       /\ ~zlib_decompress(LastRaw).ok => chunk = LastRaw
       /\ epc = "interpret" => tokens = tokenize(chunk).toks
       /\ epc = "chunks" => EndsWith(lines, interpret(tokenize(chunk).toks))

\* the zlib stream of (b)Tj, then (a)Tj, which does not inflate: the lines b, a
C16_Witness ==
  /\ epc = "chunks"
  /\ nraw = 2
  /\ raws = <<ZlibStream, <<40, 97, 41, 84, 106>> >>
  /\ chunk = <<40, 97, 41, 84, 106>>
  /\ lines = << <<98>>, <<97>> >>

\* the number of bytes b in s
RECURSIVE CountByte(_, _)
CountByte(s, b) ==
  IF s = << >> THEN 0 ELSE (IF Head(s) = b THEN 1 ELSE 0) + CountByte(Tail(s), b)

\* the token is a name written with a leading '/'
SlashName(t) == t.typ = "NAME" /\ t.s # << >> /\ t.s[1] = 47

\* the number of /names among the tokens toks
RECURSIVE CountSlashNames(_)
CountSlashNames(toks) ==
  IF toks = << >> THEN 0
  ELSE (IF SlashName(Head(toks)) THEN 1 ELSE 0) + CountSlashNames(Tail(toks))

\* the step of interpret, called by extract_text, that processes the token tok'
ChunkTokenStep == epc = "interpret" /\ epc' = "interpret" /\ ntok' = ntok + 1

\* C19: every '/' of a chunk (in the ranges of the model a '/' stands only at
\* the start of a name) gives a token that keeps its leading '/', such a token
\* changes neither the accumulator nor the line list, and a token that does
\* change one of them is one of the bare names Tj, ', ", TJ, Td, TD, Tm, BT, ET.
C19_SlashNamesInert ==
  /\ [](epc = "interpret" => CountSlashNames(tokens) = CountByte(chunk, 47))
  /\ [][ChunkTokenStep =>
          /\ SlashName(tok') => (ist'.current = ist.current /\ ist'.lines = ist.lines)
          /\ (ist'.current # ist.current \/ ist'.lines # ist.lines) =>
               (tok'.typ = "NAME" /\ tok'.s \in TextOperators)]_vars

\* (a)Tj (c)/Tj: /Tj was processed, the String c is gone and was not shown
C19_Witness ==
  /\ epc = "interpret"
  /\ tok = NameTok(<<47, 84, 106>>)
  /\ ist.current = <<97>>
  /\ ist.stack = << >>
  /\ ist.lines = << >>

----------------------------------------------------------------------------
(* Claims on the flushing operators and on the text kept by interpret *)

Flushers == {OpTdName, OpTDName, OpTmName, OpBTName, OpETName}

\* C17: Td, TD, Tm, BT and ET, whatever the stack holds, leave the accumulator
\* empty and append the previous accumulator to the line list as one new last
\* line if and only if it was not empty.
C17_PositioningFlushes ==
  [][(TokenStep /\ tok'.typ = "NAME" /\ tok'.s \in Flushers) =>
       /\ ist'.current = << >>
       /\ ist'.lines = IF ist.current # << >> THEN Append(ist.lines, ist.current)
                       ELSE ist.lines]_vars

\* (a) Tj (a) Td: the line a is emitted, the String on the stack starts no text
C17_Witness ==
  /\ ipc = "loop"
  /\ ntok = 4
  /\ tok = NameTok(OpTdName)
  /\ ist.lines = << <<97>> >>
  /\ ist.current = << >>

\* the lines ls one after the other
RECURSIVE Flat(_)
Flat(ls) == IF ls = << >> THEN << >> ELSE Head(ls) \o Flat(Tail(ls))

\* the text the token t appends on the stack it finds
Piece(t, stack) ==
  IF t.typ # "NAME" THEN << >>
  ELSE IF QuotePrecondition(t, stack) THEN Top(stack).s
  ELSE Shown(t, stack)

IsPrefix(a, b) == Len(a) <= Len(b) /\ SubSeq(b, 1, Len(a)) = a

\* C18: after every token the lines emitted so far followed by the accumulator
\* are the text before the token followed by the piece the token appends, and
\* the lines already emitted stay as they are; the final flush empties the
\* accumulator and makes a non-empty accumulator the last line.
C18_NoTextLost ==
  [][/\ TokenStep =>
          /\ Flat(ist'.lines) \o ist'.current =
               Flat(ist.lines) \o ist.current \o Piece(tok', ist.stack)
          /\ IsPrefix(ist.lines, ist'.lines)
     /\ ReturnStep =>
          /\ ist'.current = << >>
          /\ Flat(ist'.lines) = Flat(ist.lines) \o ist.current
          /\ IsPrefix(ist.lines, ist'.lines)
          /\ ist.current # << >> => ist'.lines[Len(ist'.lines)] = ist.current]_vars

\* (a) Tj ET [(a) -121 (b)] TJ, then the end: the lines a and "a b"
C18_Witness ==
  /\ ipc = "returned"
  /\ tok = NameTok(OpTJName)
  /\ ist.lines = << <<97>>, <<97, 32, 98>> >>
  /\ ist.current = << >>

====
